---- MODULE Spec2Model ----
(***************************************************************************)
(* Model of btrack/dataio.py: the track data exchange layer.               *)
(*                                                                         *)
(*   SpecFate     fate_table, a pure function of a Tracklet collection     *)
(*   SpecExport   export, export_JSON, export_MATLAB, export_HDF           *)
(*   SpecHandler  HDF5_FileHandler and HDF5_FileHandler_LEGACY instances:  *)
(*                construction, close(), objects, finalization             *)
(*   SpecArchive  export_all_tracks_JSON, one step per file operation,     *)
(*                and import_all_tracks_JSON                               *)
(*                                                                         *)
(* File names handed to export are sequences of one-character strings, so  *)
(* that os.path.splitext and string concatenation are computed.            *)
(* Every Python value is a record tagged with its class; None is one.      *)
(* btypes and constants are not part of dataio.py: Tracklet, its to_dict,  *)
(* to_array and from_dict, and EXPORT_FORMATS follow their description.    *)
(***************************************************************************)
EXTENDS Integers, Sequences, FiniteSets, TLC

VARIABLES
    ft_tracks,      \* fate_table: the argument 'tracks'
    ft_table,       \* fate_table: the returned dict
    ft_called,      \* fate_table: TRUE once the function has returned
    fs,             \* the file system: file name -> file contents
    handlers,       \* every HDF5 handler instance constructed so far
    op,             \* the last call made: its name and arguments
    ret,            \* how the last call ended: error raised, codecs invoked,
                    \* output, and the file system it started from
    n_calls,        \* number of calls made so far
    ar,             \* export_all_tracks_JSON: arguments, locals and position
    imp             \* import_all_tracks_JSON: argument and outcome of the last call

fateVars == <<ft_tracks, ft_table, ft_called>>
ioVars == <<fs, handlers, op, ret, n_calls>>
arVars == <<ar, imp>>
vars == <<fateVars, ioVars, arVars>>

----------------------------------------------------------------------------
(* Bounds *)

MaxFateLen == 3         \* longest track list handed to fate_table
MaxLen == 3             \* longest track list handed to an exporter
MaxCalls == 1           \* calls of the export entry points in one run
MaxHandlers == 1        \* HDF5 handler instances constructed in one run
MaxGroups == 2          \* class groups under 'objects' of an HDF5 file
MaxRows == 2            \* rows of one class group

----------------------------------------------------------------------------
(* Data model: the attributes of btypes.Tracklet that dataio.py reads.     *)

None == [cls |-> "NoneType"]

\* Every Python value passed around is a record whose cls is its class.
IntObj(n) == [cls |-> "int", value |-> n]
StrObj(chars) == [cls |-> "str", value |-> chars]
ListObj(items) == [cls |-> "list", items |-> items]

isinstance(x, c) == x.cls = c

\* A btypes.PyTrackObject with the attributes new_PyTrackObject sets.
PyTrackObject(id, t, x, y, z, label, type) ==
    [cls |-> "PyTrackObject", ID |-> id, t |-> t, x |-> x, y |-> y, z |-> z,
     dummy |-> FALSE, label |-> label, probability |-> <<0>>, type |-> type]

\* An instance of class c with the attributes of a btypes.Tracklet.
TrackLike(c, id, parent, root, fate, objs) ==
    [cls |-> c, ID |-> id, parentID |-> parent, rootID |-> root,
     fate_label |-> fate, cell_type |-> None, filename |-> None,
     objects |-> objs]

\* A btypes.Tracklet instance (isinstance(t, btypes.Tracklet) holds).
Tracklet(id, parent, root, fate, objs) ==
    TrackLike("Tracklet", id, parent, root, fate, objs)

\* An object of another class that offers the attributes and methods of a
\* Tracklet (ID, to_dict, to_array, fate_label): not a btypes.Tracklet.
Lookalike(id, parent, root, fate, objs) ==
    TrackLike("Lookalike", id, parent, root, fate, objs)

\* Does x have the attributes the exporters read (ID, to_dict, to_array)?
HasTrackAttrs(x) == x.cls \in {"Tracklet", "Lookalike"}

SeqsUpTo(S, n) == UNION {[1..k -> S] : k \in 0..n}

----------------------------------------------------------------------------
(* fate_table (dataio.py 43-55)                                            *)

\* A Python dict: the keys in the order they were inserted, and the value
\* held under each key.
EmptyDict == [keys |-> <<>>, val |-> <<>>]

HasKey(d, k) == \E i \in 1..Len(d.keys) : d.keys[i] = k

DictGet(d, k) == d.val[CHOOSE i \in 1..Len(d.keys) : d.keys[i] = k]

\* d[k] = v for a key not yet in d.
DictInsert(d, k, v) == [keys |-> Append(d.keys, k), val |-> Append(d.val, v)]

\* d[k] = v for a key already in d.
DictUpdate(d, k, v) ==
    [d EXCEPT !.val = [i \in 1..Len(d.val) |-> IF d.keys[i] = k THEN v ELSE d.val[i]]]

\* The loop body with the append of line 53 turned into an assignment.
fate_table_step_overwrite(d, t) ==
    IF ~HasKey(d, t.fate_label)
    THEN DictInsert(d, t.fate_label, <<t.ID>>)
    ELSE DictUpdate(d, t.fate_label, <<t.ID>>)

\* One pass of the loop body, lines 50-53.
fate_table_step(d, t) ==
    IF ~HasKey(d, t.fate_label)
    THEN DictInsert(d, t.fate_label, <<t.ID>>)
    ELSE DictUpdate(d, t.fate_label, Append(DictGet(d, t.fate_label), t.ID))

RECURSIVE fate_table_loop(_, _, _)
fate_table_loop(trks, i, d) ==
    IF i > Len(trks) THEN d
    ELSE fate_table_loop(trks, i + 1, fate_table_step(d, trks[i]))

fate_table(trks) == fate_table_loop(trks, 1, EmptyDict)

----------------------------------------------------------------------------
(* File names and os.path.splitext                                         *)

Name_x == <<"x">>
Ext_json == <<".", "j", "s", "o", "n">>
Ext_mat == <<".", "m", "a", "t">>
Ext_hdf5 == <<".", "h", "d", "f", "5">>
Ext_xyz == <<".", "x", "y", "z">>

\* str.rfind, 1-based: the last position of character c in p, 0 if none.
rfind(p, c) ==
    LET S == {i \in 1..Len(p) : p[i] = c}
    IN  IF S = {} THEN 0 ELSE CHOOSE i \in S : \A j \in S : j <= i

\* os.path.splitext(p) = <<root, ext>>: ext starts at the last dot of the
\* last path component, unless that component has only leading dots.
splitext(p) ==
    LET sepIndex == rfind(p, "/")
        dotIndex == rfind(p, ".")
    IN  IF /\ dotIndex > sepIndex
           /\ \E k \in (sepIndex + 1)..(dotIndex - 1) : p[k] # "."
        THEN <<SubSeq(p, 1, dotIndex - 1), SubSeq(p, dotIndex, Len(p))>>
        ELSE <<p, <<>>>>

\* str.endswith
endswith(p, suffix) ==
    /\ Len(suffix) <= Len(p)
    /\ SubSeq(p, Len(p) - Len(suffix) + 1, Len(p)) = suffix

\* constants.EXPORT_FORMATS
EXPORT_FORMATS == {Ext_json, Ext_mat, Ext_hdf5}

----------------------------------------------------------------------------
(* The file system, and how a call ends                                    *)

EmptyFS == [n \in {} |-> n]

exists(files, name) == name \in DOMAIN files

\* open(name, 'w') followed by the write of the whole contents.
WriteFile(files, name, contents) ==
    [n \in (DOMAIN files) \cup {name} |-> IF n = name THEN contents ELSE files[n]]

\* os.remove(name) that leaves the file where it is.
RemoveFile_kept(files, name) == files

\* os.remove(name)
RemoveFile(files, name) == [n \in (DOMAIN files) \ {name} |-> files[n]]

\* A call's outcome: the error it raised ("none" for a normal return), the
\* file system it leaves, the codecs it invoked, what it printed and the
\* handler instances it constructed.
Return(files) ==
    [raised |-> "none", fs |-> files, calls |-> <<>>, stdout |-> <<>>, handlers |-> <<>>]

Raise(error, files) ==
    [raised |-> error, fs |-> files, calls |-> <<>>, stdout |-> <<>>, handlers |-> <<>>]

\* The outcome r of a codec, seen from the router that invoked it.
Invoked(codec, name, r) == [r EXCEPT !.calls = <<<<codec, name>>>> \o @]

----------------------------------------------------------------------------
(* btypes.Tracklet.to_dict, to_array, from_dict                            *)

object_to_dict(o) ==
    [id |-> o.ID, t |-> o.t, x |-> o.x, y |-> o.y, z |-> o.z, dummy |-> o.dummy,
     label |-> o.label, type |-> o.type, probability |-> o.probability]

to_dict(trk) ==
    [ID |-> trk.ID, parentID |-> trk.parentID, rootID |-> trk.rootID,
     fate_label |-> trk.fate_label, cell_type |-> trk.cell_type,
     objects |-> [i \in 1..Len(trk.objects) |-> object_to_dict(trk.objects[i])]]

\* One row [x, y, frm, ID, parentID, rootID, class_label] per object.
to_array(trk) ==
    [i \in 1..Len(trk.objects) |->
        <<trk.objects[i].x, trk.objects[i].y, trk.objects[i].t, trk.ID,
          trk.parentID, trk.rootID, trk.objects[i].label>>]

object_from_dict(d) ==
    [cls |-> "PyTrackObject", ID |-> d.id, t |-> d.t, x |-> d.x, y |-> d.y,
     z |-> d.z, dummy |-> d.dummy, label |-> d.label,
     probability |-> d.probability, type |-> d.type]

from_dict(d) ==
    [cls |-> "Tracklet", ID |-> d.ID, parentID |-> d.parentID, rootID |-> d.rootID,
     fate_label |-> d.fate_label, cell_type |-> d.cell_type, filename |-> d.filename,
     objects |-> [i \in 1..Len(d.objects) |-> object_from_dict(d.objects[i])]]

\* json.dump / json.load of a document whose keys are strings.
json_dump(doc) == [kind |-> "json", doc |-> doc]
json_load(file) == file.doc

RECURSIVE Flatten(_)
Flatten(ss) == IF ss = <<>> THEN <<>> ELSE Head(ss) \o Flatten(Tail(ss))

RECURSIVE SortedSeq(_)
\* The members of a set of integers in ascending order.
SortedSeq(S) ==
    IF S = {} THEN <<>>
    ELSE LET m == CHOOSE a \in S : \A b \in S : a <= b
         IN  <<m>> \o SortedSeq(S \ {m})

----------------------------------------------------------------------------
(* check_track_type, export_JSON, export_MATLAB (dataio.py 97-127, 228-243) *)

\* Only called on a non-empty list: tracks[0] of an empty one is an IndexError.
check_track_type(trks) == isinstance(trks[1], "Tracklet")

\* d of line 123 sorted by ID as on line 124: one <<key, document>> pair per
\* distinct ID, a later track of the same ID replacing the earlier one.
json_export(trks) ==
    LET ids == SortedSeq({trks[i].ID : i \in 1..Len(trks)})
        last(id) == CHOOSE i \in 1..Len(trks) :
                        /\ trks[i].ID = id
                        /\ \A j \in (i + 1)..Len(trks) : trks[j].ID # id
    IN  [k \in 1..Len(ids) |-> <<<<"Tracklet_", ids[k]>>, to_dict(trks[last(ids[k])])>>]

export_JSON(filename, trks, files) ==
    IF Len(trks) = 0 THEN Raise("IndexError", files)
    ELSE IF ~check_track_type(trks) THEN Raise("TypeError", files)
    ELSE IF \E i \in 1..Len(trks) : ~HasTrackAttrs(trks[i])
         THEN Raise("AttributeError", files)
    ELSE Return(WriteFile(files, filename, json_dump(json_export(trks))))

\* scipy.io.savemat appends '.mat' to a name that does not end with it.
savemat(filename, output, files) ==
    LET name == IF endswith(filename, Ext_mat) THEN filename ELSE filename \o Ext_mat
    IN  WriteFile(files, name, [kind |-> "mat", vars |-> output])

export_MATLAB(filename, trks, files) ==
    IF Len(trks) = 0 THEN Raise("IndexError", files)
    ELSE IF ~check_track_type(trks) THEN Raise("TypeError", files)
    ELSE IF \E i \in 1..Len(trks) : ~HasTrackAttrs(trks[i])
         THEN Raise("AttributeError", files)
    ELSE LET output ==
                [tracks |-> Flatten([i \in 1..Len(trks) |-> to_array(trks[i])]),
                 track_labels |-> <<"x", "y", "frm", "ID", "parentID", "rootID",
                                    "class_label">>,
                 class_labels |-> <<"interphase", "prometaphase", "metaphase",
                                    "anaphase", "apoptosis">>,
                 fate_table |-> fate_table(trks)]
         IN  Return(savemat(filename, output, files))

----------------------------------------------------------------------------
(* export_single_track_JSON, export_all_tracks_JSON and                    *)
(* import_all_tracks_JSON (dataio.py 103-114, 130-224)                     *)

\* The values of cell_type that the assertion of line 150 lets through.
AcceptedCellTypes == {StrObj("GFP"), StrObj("RFP"), StrObj("iRFP"), StrObj("Phase"), None}

\* str(x) and '{}'.format(x) of a string or of None.
str(x) == IF x = None THEN "None" ELSE x.value

\* The file names of lines 155, 163 and 171 (194 and 206), inside export_dir.
TrackFileName(id, cell_type) ==
    [format |-> "track_{}_{}.json", ID |-> id, cell_type |-> str(cell_type)]
ZipName(cell_type) == [format |-> "tracks_{}.zip", cell_type |-> str(cell_type)]
ManifestName(cell_type) == [format |-> "tracks_{}.json", cell_type |-> str(cell_type)]

\* The file name is built by format on line 155, so the test of lines
\* 106-107 never fires here.
export_single_track_JSON(filename, track, files) ==
    IF ~isinstance(track, "Tracklet") THEN Raise("TypeError", files)
    ELSE Return(WriteFile(files, filename, json_dump(to_dict(track))))

\* file_stats of lines 172-175: a dict with the one key str(cell_type).
file_stats(cell_type, as_zip_archive, filenames) ==
    DictInsert(EmptyDict, str(cell_type),
               [path |-> "export_dir", zipped |-> as_zip_archive, files |-> filenames])

\* d[key] of a dict read back from JSON, whose keys are strings: does the
\* Python value key equal one of them?
HasKeyObj(d, key) == isinstance(key, "str") /\ HasKey(d, key.value)

\* zipfile.ZipFile(name, 'w'): an archive with no member, not yet closed.
NewZip == [kind |-> "zip", members |-> <<>>, finalized |-> FALSE]

ZipHas(zip, name) == \E k \in 1..Len(zip.members) : zip.members[k].name = name

ZipRead(zip, name) ==
    zip.members[CHOOSE k \in 1..Len(zip.members) : zip.members[k].name = name].data

\* Lines 211-213 and 220-222: the decoded document with cell_type and
\* filename injected, materialized.
materialize(d, cell_type, track_fn) ==
    from_dict([ID |-> d.ID, parentID |-> d.parentID, rootID |-> d.rootID,
               fate_label |-> d.fate_label, objects |-> d.objects,
               cell_type |-> cell_type, filename |-> track_fn])

import_all_tracks_JSON(cell_type, files) ==
    IF ~exists(files, ManifestName(cell_type))
    THEN [raised |-> "IOError", tracks |-> <<>>]
    ELSE LET track_files == json_load(files[ManifestName(cell_type)])
         IN  IF ~HasKeyObj(track_files, cell_type)
             THEN [raised |-> "KeyError", tracks |-> <<>>]
             ELSE LET entry == DictGet(track_files, cell_type.value)
                      names == entry.files
                      zip_fn == ZipName(cell_type)
                  IN  IF entry.zipped
                      THEN IF ~exists(files, zip_fn)
                           THEN [raised |-> "IOError", tracks |-> <<>>]
                           ELSE IF ~files[zip_fn].finalized
                           THEN [raised |-> "BadZipfile", tracks |-> <<>>]
                           ELSE IF \E k \in 1..Len(names) : ~ZipHas(files[zip_fn], names[k])
                           THEN [raised |-> "KeyError", tracks |-> <<>>]
                           ELSE [raised |-> "none",
                                 tracks |-> [k \in 1..Len(names) |->
                                    materialize(json_load(ZipRead(files[zip_fn], names[k])),
                                                cell_type, names[k])]]
                      ELSE IF \E k \in 1..Len(names) : ~exists(files, names[k])
                           THEN [raised |-> "IOError", tracks |-> <<>>]
                           ELSE [raised |-> "none",
                                 tracks |-> [k \in 1..Len(names) |->
                                    materialize(json_load(files[names[k]]),
                                                cell_type, names[k])]]

----------------------------------------------------------------------------
(* HDF5_FileHandler and HDF5_FileHandler_LEGACY (dataio.py 291-485)        *)

\* An HDF5 file of the current schema: one group per class under 'objects',
\* each with as many 'coords' rows [t, x, y, z, type] as 'labels' rows.
HDFGroup(n) ==
    [coords |-> [i \in 1..n |-> <<i, 10 + i, 20 + i, 0, 0>>],
     labels |-> [i \in 1..n |-> <<i % 2>>]]

HDFFile(counts) ==
    [kind |-> "hdf5",
     objects |-> [c \in 1..Len(counts) |-> HDFGroup(counts[c])],
     tracks |-> <<>>, dummies |-> <<>>]

\* h5py.File(filename, 'r') and h5py.File(filename, 'r+') both need an
\* existing HDF5 file.
CanOpen(files, filename) == exists(files, filename) /\ files[filename].kind = "hdf5"

\* __init__: the instance after the constructor ran. _hdf stays unset when
\* h5py.File raises. _ID is set by the first read of 'objects' only.
\* closes counts the calls of _hdf.close(); ref tells whether the program
\* still holds the instance ("held"), has let go of it ("dropped") or
\* __del__ has run ("finalized").
HandlerInit(cls, filename, files) ==
    [cls |-> cls, filename |-> filename,
     hdf |-> IF CanOpen(files, filename) THEN "open" ELSE "unset",
     ID |-> -1, closes |-> 0, ref |-> "held", del_raised |-> "none"]

\* bool(self._hdf): an h5py File is true while it is open.
Truthy(hdf) == hdf = "open"

\* close() with the test of line 429 (322) left out.
close_unguarded(h) ==
    IF h.hdf = "unset" THEN h
    ELSE [h EXCEPT !.hdf = "closed", !.closes = @ + 1]

\* close(): the instance afterwards. Reading self._hdf of an instance whose
\* constructor failed raises AttributeError: see CloseRaises.
close(h) ==
    IF h.hdf = "unset" THEN h
    ELSE IF Truthy(h.hdf) THEN [h EXCEPT !.hdf = "closed", !.closes = @ + 1]
    ELSE h

CloseRaises(h) == IF h.hdf = "unset" THEN "AttributeError" ELSE "none"

\* __del__: close(), an error raised inside it being discarded by the
\* interpreter.
del(h) == [close(h) EXCEPT !.ref = "finalized", !.del_raised = CloseRaises(h)]

\* new_PyTrackObject (465-485): the object built from one row, for the
\* value id of self._ID at the call; the caller's self._ID becomes id + 1.
new_PyTrackObject(id, txyz, label, obj_type) ==
    PyTrackObject(id, txyz[1], txyz[2], txyz[3], txyz[4], label[1], obj_type)

RECURSIVE read_rows(_, _, _, _, _)
\* The list comprehension of line 451 over rows i..n_obj of one group:
\* <<objects, self._ID>> afterwards.
read_rows(grp, i, obj_type, obj, id) ==
    IF i > Len(grp.coords) THEN <<obj, id>>
    ELSE read_rows(grp, i + 1, obj_type,
                   Append(obj, new_PyTrackObject(id, grp.coords[i], grp.labels[i], obj_type)),
                   id + 1)

RECURSIVE read_groups(_, _, _, _)
\* The loop of lines 440-452 from group c on (ci = c - 1, obj_type = ci + 1).
read_groups(groups, c, objects, id) ==
    IF c > Len(groups) THEN <<objects, id>>
    ELSE LET r == read_rows(groups[c], 1, (c - 1) + 1, <<>>, id)
         IN  read_groups(groups, c + 1, objects \o r[1], r[2])

\* The objects property with line 438 (self._ID = 0) left out.
objects_no_reset(h, file) ==
    read_groups(file.objects, 1, <<>>, IF h.ID < 0 THEN 0 ELSE h.ID)

\* The objects property (433-453) of an open handler: <<objects, self._ID>>.
objects(h, file) == read_groups(file.objects, 1, <<>>, 0)

----------------------------------------------------------------------------
(* export_HDF (dataio.py 247-287) and export (dataio.py 59-92)             *)

export_HDF(filename, trks, dummies, files) ==
    IF Len(trks) = 0 THEN Raise("IndexError", files)
    ELSE IF isinstance(trks[1], "list")
    THEN IF ~exists(files, filename) THEN Raise("IOError", files)
         ELSE IF Len(trks[1].items) = 0 THEN Raise("IndexError", files)
         ELSE IF ~isinstance(trks[1].items[1], "int")
              THEN [Raise("TypeError", files) EXCEPT !.stdout = <<trks[1].items[1]>>]
         ELSE LET h == HandlerInit("HDF5_FileHandler", filename, files)
              IN  IF h.hdf = "unset"
                  \* h5py.File raised inside the constructor
                  THEN [Raise("IOError", files) EXCEPT
                            !.handlers = <<[h EXCEPT !.ref = "dropped"]>>]
                  \* h.write_tracks: HDF5_FileHandler has no such method
                  ELSE [Raise("AttributeError", files) EXCEPT
                            !.handlers = <<[h EXCEPT !.ref = "dropped"]>>]
    ELSE IF check_track_type(trks)
         THEN [Return(files) EXCEPT !.stdout = <<"oops!">>]
    ELSE Raise("TypeError", files)

\* The dispatch of lines 85-92 with the '.mat' branch calling the JSON codec.
export_misrouted(filename, trks, files) ==
    IF ~isinstance(filename, "str") THEN Raise("TypeError", files)
    ELSE LET ext == splitext(filename.value)[2]
             fmt == IF ext = <<>> THEN Ext_json ELSE ext
             name == IF ext = <<>> THEN filename.value \o fmt ELSE filename.value
         IN  IF fmt \notin EXPORT_FORMATS THEN Raise("ValueError", files)
             ELSE IF fmt = Ext_json \/ fmt = Ext_mat
                  THEN Invoked("export_JSON", name, export_JSON(name, trks, files))
             ELSE IF fmt = Ext_hdf5
                  THEN Invoked("export_HDF", name, export_HDF(name, trks, <<>>, files))
             ELSE Raise("Exception", files)

export(filename, trks, files) ==
    IF ~isinstance(filename, "str") THEN Raise("TypeError", files)
    ELSE LET ext == splitext(filename.value)[2]
             fmt == IF ext = <<>> THEN Ext_json ELSE ext
             name == IF ext = <<>> THEN filename.value \o fmt ELSE filename.value
         IN  IF fmt \notin EXPORT_FORMATS THEN Raise("ValueError", files)
             ELSE IF fmt = Ext_json
                  THEN Invoked("export_JSON", name, export_JSON(name, trks, files))
             ELSE IF fmt = Ext_mat
                  THEN Invoked("export_MATLAB", name, export_MATLAB(name, trks, files))
             ELSE IF fmt = Ext_hdf5
                  THEN Invoked("export_HDF", name, export_HDF(name, trks, <<>>, files))
             ELSE Raise("Exception", files)

----------------------------------------------------------------------------
(* Specification of fate_table                                             *)

FateLabels == {"interphase", "apoptosis", "anaphase"}
FateIDs == {1, 2}

\* The Tracklets handed to fate_table: every ID with every fate label.
FateTracklets ==
    {Tracklet(i, 0, i, f, <<PyTrackObject(0, 0, 1, 1, 0, 0, 1)>>) : i \in FateIDs, f \in FateLabels}

ArIdle ==
    /\ ar = [pc |-> "idle"]
    /\ imp = [called |-> FALSE]

IoIdle ==
    /\ fs = [n \in {} |-> n]
    /\ handlers = <<>>
    /\ op = [name |-> "none"]
    /\ ret = [raised |-> "none", calls |-> <<>>, stdout |-> <<>>, before |-> fs]
    /\ n_calls = 0

FateIdle ==
    /\ ft_tracks = <<>>
    /\ ft_table = EmptyDict
    /\ ft_called = FALSE

FateInit ==
    /\ ft_tracks \in SeqsUpTo(FateTracklets, MaxFateLen)
    /\ ft_table = EmptyDict
    /\ ft_called = FALSE
    /\ IoIdle
    /\ ArIdle

CallFateTable ==
    /\ ~ft_called
    /\ ft_table' = fate_table(ft_tracks)
    /\ ft_called' = TRUE
    /\ UNCHANGED <<ft_tracks, ioVars, arVars>>

FateNext == CallFateTable

SpecFate == FateInit /\ [][FateNext]_vars

----------------------------------------------------------------------------
(* Specification of the exporters: export, export_JSON, export_MATLAB and  *)
(* export_HDF called on a file system that may already hold x.hdf5.        *)

Trk(i) ==
    Tracklet(i, i - 1, 1, IF i = 1 THEN "interphase" ELSE "apoptosis",
             <<PyTrackObject(0, i, 1, 2, 0, 0, 1), PyTrackObject(1, i + 1, 3, 4, 0, 1, 1)>>)

\* n Tracklets, IDs descending.
TrackletList(n) == [i \in 1..n |-> Trk(n + 1 - i)]

\* What may stand in a track list in place of a Tracklet.
NonTracklets == {IntObj(5), Lookalike(9, 0, 9, "interphase", <<PyTrackObject(0, 9, 1, 2, 0, 0, 1)>>)}

\* A list of Tracklets save for one element, at any position.
OneBadLists ==
    {[TrackletList(n) EXCEPT ![p] = b] : n \in 1..MaxLen, p \in 1..MaxLen, b \in NonTracklets}

\* Lists of object references, well-formed or not.
ReferenceLists ==
    {<<ListObj(<<IntObj(0), IntObj(1)>>), ListObj(<<IntObj(2)>>)>>,
     <<ListObj(<<>>)>>,
     <<ListObj(<<StrObj(<<"a">>)>>)>>}

TrackLists ==
    {TrackletList(n) : n \in 0..MaxLen}
        \cup {l \in OneBadLists : \E i \in 1..Len(l) : l[i] \in NonTracklets}
        \cup ReferenceLists

ExportNames ==
    {StrObj(Name_x), StrObj(Name_x \o Ext_json), StrObj(Name_x \o Ext_mat),
     StrObj(Name_x \o Ext_hdf5), StrObj(Name_x \o Ext_xyz), StrObj(Ext_json),
     StrObj(Name_x \o <<".">>), StrObj(<<"d", ".", "d", "/", "x">>), IntObj(5)}

DummyLists == {<<>>, <<IntObj(7)>>}

\* x.hdf5 is absent, an HDF5 file with two classes of objects, or not an
\* HDF5 file at all.
InitialFileSystems ==
    {EmptyFS,
     WriteFile(EmptyFS, Name_x \o Ext_hdf5, HDFFile(<<2, 1>>)),
     WriteFile(EmptyFS, Name_x \o Ext_hdf5, json_dump(<<>>))}

ExportInit ==
    /\ fs \in InitialFileSystems
    /\ handlers = <<>>
    /\ op = [name |-> "none"]
    /\ ret = [raised |-> "none", calls |-> <<>>, stdout |-> <<>>, before |-> fs]
    /\ n_calls = 0
    /\ FateIdle
    /\ ArIdle

\* The state after a call that ended as r.
Called(name, filename, trks, dummies, r) ==
    /\ n_calls < MaxCalls
    /\ Len(handlers) + Len(r.handlers) <= MaxHandlers
    /\ n_calls' = n_calls + 1
    /\ op' = [name |-> name, filename |-> filename, tracks |-> trks, dummies |-> dummies]
    /\ fs' = r.fs
    /\ ret' = [raised |-> r.raised, calls |-> r.calls, stdout |-> r.stdout, before |-> fs]
    /\ handlers' = handlers \o r.handlers
    /\ UNCHANGED <<fateVars, arVars>>

CallExport(filename, trks) ==
    Called("export", filename, trks, <<>>, export(filename, trks, fs))

CallExportJSON(filename, trks) ==
    Called("export_JSON", StrObj(filename), trks, <<>>, export_JSON(filename, trks, fs))

CallExportMATLAB(filename, trks) ==
    Called("export_MATLAB", StrObj(filename), trks, <<>>, export_MATLAB(filename, trks, fs))

CallExportHDF(filename, trks, dummies) ==
    Called("export_HDF", StrObj(filename), trks, dummies,
           export_HDF(filename, trks, dummies, fs))

\* The interpreter finalizes an instance the program no longer holds.
Finalize(i) ==
    /\ handlers[i].ref = "dropped"
    /\ handlers' = [handlers EXCEPT ![i] = del(@)]
    /\ op' = [name |-> "__del__", handler |-> i]
    /\ ret' = [raised |-> "none", self |-> handlers[i]]
    /\ UNCHANGED <<fs, n_calls, fateVars, arVars>>

ExportNext ==
    \/ \E f \in ExportNames, t \in TrackLists : CallExport(f, t)
    \/ \E t \in TrackLists : CallExportJSON(Name_x \o Ext_json, t)
    \/ \E f \in {Name_x \o Ext_mat, Name_x}, t \in TrackLists : CallExportMATLAB(f, t)
    \/ \E t \in TrackLists, d \in DummyLists : CallExportHDF(Name_x \o Ext_hdf5, t, d)
    \/ \E i \in 1..Len(handlers) : Finalize(i)

SpecExport == ExportInit /\ [][ExportNext]_vars

----------------------------------------------------------------------------
(* Specification of the HDF5 handlers: construction, close(), the objects  *)
(* property, letting go of an instance, its finalization, and export_HDF.  *)
(* The objects property of HDF5_FileHandler_LEGACY is not modelled.        *)

HandlerClasses == {"HDF5_FileHandler", "HDF5_FileHandler_LEGACY"}

HDFName == Name_x \o Ext_hdf5

HandlerInit0 ==
    /\ fs \in {EmptyFS, WriteFile(EmptyFS, HDFName, json_dump(<<>>))}
                \cup {WriteFile(EmptyFS, HDFName, HDFFile(counts)) :
                        counts \in SeqsUpTo(0..MaxRows, MaxGroups)}
    /\ handlers = <<>>
    /\ op = [name |-> "none"]
    /\ ret = [raised |-> "none", calls |-> <<>>, stdout |-> <<>>, before |-> fs]
    /\ n_calls = 0
    /\ FateIdle
    /\ ArIdle

\* h = cls(filename). When h5py.File raises, the caller gets the error and
\* no reference to the instance.
Construct(cls, filename) ==
    /\ Len(handlers) < MaxHandlers
    /\ LET h == HandlerInit(cls, filename, fs)
       IN  IF h.hdf = "unset"
           THEN /\ handlers' = Append(handlers, [h EXCEPT !.ref = "dropped"])
                /\ ret' = [raised |-> "IOError"]
           ELSE /\ handlers' = Append(handlers, h)
                /\ ret' = [raised |-> "none"]
    /\ op' = [name |-> "__init__", handler |-> Len(handlers) + 1]
    /\ UNCHANGED <<fs, n_calls, fateVars, arVars>>

\* h.close() on an instance the program holds.
Close(i) ==
    /\ handlers[i].ref = "held"
    /\ handlers' = [handlers EXCEPT ![i] = close(@)]
    /\ op' = [name |-> "close", handler |-> i]
    /\ ret' = [raised |-> CloseRaises(handlers[i]), self |-> handlers[i]]
    /\ UNCHANGED <<fs, n_calls, fateVars, arVars>>

\* h.objects on an instance of HDF5_FileHandler the program holds; reading
\* a closed h5py file raises after line 438 has run.
ReadObjects(i) ==
    /\ handlers[i].ref = "held"
    /\ handlers[i].cls = "HDF5_FileHandler"
    /\ IF handlers[i].hdf = "open"
       THEN LET r == objects(handlers[i], fs[handlers[i].filename])
            IN  /\ handlers' = [handlers EXCEPT ![i].ID = r[2]]
                /\ ret' = [raised |-> "none", self |-> handlers[i], objects |-> r[1]]
       ELSE /\ handlers' = [handlers EXCEPT ![i].ID = 0]
            /\ ret' = [raised |-> "ValueError", self |-> handlers[i], objects |-> <<>>]
    /\ op' = [name |-> "objects", handler |-> i]
    /\ UNCHANGED <<fs, n_calls, fateVars, arVars>>

\* The program lets go of its last reference to the instance.
Drop(i) ==
    /\ handlers[i].ref = "held"
    /\ handlers' = [handlers EXCEPT ![i].ref = "dropped"]
    /\ op' = [name |-> "drop", handler |-> i]
    /\ ret' = [raised |-> "none", self |-> handlers[i]]
    /\ UNCHANGED <<fs, n_calls, fateVars, arVars>>

HandlerNext ==
    \/ \E c \in HandlerClasses : Construct(c, HDFName)
    \/ \E i \in 1..Len(handlers) : Close(i)
    \/ \E i \in 1..Len(handlers) : ReadObjects(i)
    \/ \E i \in 1..Len(handlers) : Drop(i)
    \/ \E i \in 1..Len(handlers) : Finalize(i)
    \/ \E t \in ReferenceLists \cup {TrackletList(1)}, d \in DummyLists :
            CallExportHDF(HDFName, t, d)

SpecHandler == HandlerInit0 /\ [][HandlerNext]_vars

----------------------------------------------------------------------------
(* Specification of the per-track archive: export_all_tracks_JSON, one     *)
(* step per file operation, and import_all_tracks_JSON between exports.    *)
(* The directory export_dir is the file system fs.                         *)

ArchiveCellTypes == {StrObj("GFP"), StrObj("Phase"), None, StrObj("XFP")}

ArchiveLists ==
    {TrackletList(n) : n \in 0..MaxLen}
        \cup {l \in OneBadLists : \E i \in 1..Len(l) : l[i] \in NonTracklets}
        \cup {<<Trk(1), Trk(1)>>}

\* The directory a finished export of two GFP tracks without zipping leaves.
LooseDir ==
    LET names == <<TrackFileName(2, StrObj("GFP")), TrackFileName(1, StrObj("GFP"))>>
        d1 == WriteFile(EmptyFS, names[1], json_dump(to_dict(Trk(2))))
        d2 == WriteFile(d1, names[2], json_dump(to_dict(Trk(1))))
    IN  WriteFile(d2, ManifestName(StrObj("GFP")),
                  json_dump(file_stats(StrObj("GFP"), FALSE, names)))

ArchiveInit ==
    /\ fs \in {EmptyFS, LooseDir}
    /\ handlers = <<>>
    /\ op = [name |-> "none"]
    /\ ret = [raised |-> "none", calls |-> <<>>, stdout |-> <<>>, before |-> fs]
    /\ n_calls = 0
    /\ FateIdle
    /\ ArIdle

ArQuiet == ar.pc \in {"idle", "done", "failed"}

\* Where the function goes once the loop of lines 154-158 is at index i.
AfterTrack(trks, i, as_zip_archive) ==
    IF i <= Len(trks) THEN "write"
    ELSE IF as_zip_archive THEN "zip_open" ELSE "manifest"

\* Where it goes once the loop of lines 166-169 is at index j.
AfterMember(filenames, j) == IF j <= Len(filenames) THEN "zip_write" ELSE "zip_close"

Fail(error) == [ar EXCEPT !.pc = "failed", !.raised = error]

\* The call, up to the start of the loop over the tracks (lines 150-153).
Begin(trks, cell_type, as_zip_archive) ==
    /\ ArQuiet
    /\ n_calls < MaxCalls
    /\ n_calls' = n_calls + 1
    /\ ar' = [pc |-> IF cell_type \in AcceptedCellTypes
                     THEN AfterTrack(trks, 1, as_zip_archive) ELSE "failed",
              raised |-> IF cell_type \in AcceptedCellTypes
                         THEN "none" ELSE "AssertionError",
              tracks |-> trks, cell_type |-> cell_type,
              as_zip_archive |-> as_zip_archive,
              filenames |-> <<>>, i |-> 1]
    /\ imp' = [called |-> FALSE]
    /\ UNCHANGED <<fs, handlers, op, ret, fateVars>>

\* One pass of the loop of lines 154-158.
WriteTrack ==
    /\ ar.pc = "write"
    /\ LET track == ar.tracks[ar.i]
       IN  IF ~HasTrackAttrs(track)
           THEN ar' = Fail("AttributeError") /\ fs' = fs
           ELSE LET fn == TrackFileName(track.ID, ar.cell_type)
                    r == export_single_track_JSON(fn, track, fs)
                IN  IF r.raised # "none"
                    THEN ar' = Fail(r.raised) /\ fs' = fs
                    ELSE /\ fs' = r.fs
                         /\ ar' = [ar EXCEPT
                                !.filenames = Append(@, fn),
                                !.i = @ + 1,
                                !.pc = AfterTrack(ar.tracks, ar.i + 1, ar.as_zip_archive)]
    /\ UNCHANGED <<handlers, op, ret, n_calls, fateVars, imp>>

\* Line 165: the archive is created, or truncated.
ZipOpen ==
    /\ ar.pc = "zip_open"
    /\ fs' = WriteFile(fs, ZipName(ar.cell_type), NewZip)
    /\ ar' = [ar EXCEPT !.i = 1, !.pc = AfterMember(ar.filenames, 1)]
    /\ UNCHANGED <<handlers, op, ret, n_calls, fateVars, imp>>

\* Line 168: zip.write of one file. When the file is gone the error leaves
\* the with block, which closes the archive.
ZipWrite ==
    /\ ar.pc = "zip_write"
    /\ LET fn == ar.filenames[ar.i]
           zip_fn == ZipName(ar.cell_type)
       IN  IF ~exists(fs, fn)
           THEN /\ ar' = Fail("OSError")
                /\ fs' = [fs EXCEPT ![zip_fn].finalized = TRUE]
           ELSE /\ ar' = [ar EXCEPT !.pc = "zip_remove"]
                /\ fs' = [fs EXCEPT ![zip_fn].members =
                                Append(@, [name |-> fn, data |-> fs[fn]])]
    /\ UNCHANGED <<handlers, op, ret, n_calls, fateVars, imp>>

\* Line 169: os.remove of the file just written to the archive.
ZipRemove ==
    /\ ar.pc = "zip_remove"
    /\ fs' = RemoveFile(fs, ar.filenames[ar.i])
    /\ ar' = [ar EXCEPT !.i = @ + 1, !.pc = AfterMember(ar.filenames, ar.i + 1)]
    /\ UNCHANGED <<handlers, op, ret, n_calls, fateVars, imp>>

\* The end of the with block of line 165: the archive is closed.
ZipClose ==
    /\ ar.pc = "zip_close"
    /\ fs' = [fs EXCEPT ![ZipName(ar.cell_type)].finalized = TRUE]
    /\ ar' = [ar EXCEPT !.pc = "manifest"]
    /\ UNCHANGED <<handlers, op, ret, n_calls, fateVars, imp>>

\* Lines 171-179: the manifest is written and the function returns.
WriteManifest ==
    /\ ar.pc = "manifest"
    /\ fs' = WriteFile(fs, ManifestName(ar.cell_type),
                       json_dump(file_stats(ar.cell_type, ar.as_zip_archive, ar.filenames)))
    /\ ar' = [ar EXCEPT !.pc = "done"]
    /\ UNCHANGED <<handlers, op, ret, n_calls, fateVars, imp>>

\* import_all_tracks_JSON(export_dir, cell_type), between exports.
Import(cell_type) ==
    /\ ArQuiet
    /\ LET r == import_all_tracks_JSON(cell_type, fs)
       IN  imp' = [called |-> TRUE, cell_type |-> cell_type,
                   raised |-> r.raised, tracks |-> r.tracks]
    /\ UNCHANGED <<ioVars, fateVars, ar>>

ArchiveNext ==
    \/ \E t \in ArchiveLists, c \in ArchiveCellTypes, z \in BOOLEAN : Begin(t, c, z)
    \/ WriteTrack
    \/ ZipOpen
    \/ ZipWrite
    \/ ZipRemove
    \/ ZipClose
    \/ WriteManifest
    \/ \E c \in ArchiveCellTypes : Import(c)

SpecArchive == ArchiveInit /\ [][ArchiveNext]_vars

----------------------------------------------------------------------------
(* Properties of the exporters                                             *)

Max(S) == CHOOSE a \in S : \A b \in S : b <= a

\* The suffix of a file name: what follows, dot included, the last dot of
\* its last path component that has a character other than a dot before it
\* in that component; empty when there is no such dot.
Suffix(p) ==
    LET start == 1 + Max({0} \cup {i \in 1..Len(p) : p[i] = "/"})
        dots == {i \in start..Len(p) :
                    p[i] = "." /\ \E j \in start..(i - 1) : p[j] # "."}
    IN  IF dots = {} THEN <<>> ELSE SubSeq(p, Max(dots), Len(p))

Created == (DOMAIN fs) \ (DOMAIN ret.before)

\* C1: exporting a list of length >= 1 with an element that is not a
\* Tracklet, at any position, through export with a '.json' or '.mat' name
\* or through export_JSON / export_MATLAB, raises a type error and leaves
\* no file at the file name.
C1_NonTrackletRejected ==
    (/\ op.name \in {"export", "export_JSON", "export_MATLAB"}
     /\ isinstance(op.filename, "str")
     /\ Suffix(op.filename.value) \in
            (IF op.name = "export_JSON" THEN {Ext_json}
             ELSE IF op.name = "export_MATLAB" THEN {Ext_mat}
             ELSE {Ext_json, Ext_mat})
     /\ Len(op.tracks) >= 1
     /\ \E i \in 1..Len(op.tracks) : ~isinstance(op.tracks[i], "Tracklet"))
        => /\ ret.raised = "TypeError"
           /\ ~exists(fs, op.filename.value)

\* C2: export routes on the suffix of a string file name: none, the JSON
\* codec on the name with '.json' appended (which a successful export
\* creates); '.json', '.mat' or '.hdf5', the one matching codec on the name
\* and no other; any other suffix, a format error with no codec invoked and
\* no file created.
C2_Routing ==
    (op.name = "export" /\ isinstance(op.filename, "str")) =>
        LET p == op.filename.value
            sfx == Suffix(p)
        IN  /\ sfx = <<>> =>
                /\ ret.calls = <<<<"export_JSON", p \o Ext_json>>>>
                /\ ret.raised = "none" => exists(fs, p \o Ext_json)
            /\ sfx = Ext_json => ret.calls = <<<<"export_JSON", p>>>>
            /\ sfx = Ext_mat => ret.calls = <<<<"export_MATLAB", p>>>>
            /\ sfx = Ext_hdf5 => ret.calls = <<<<"export_HDF", p>>>>
            /\ sfx \notin {<<>>, Ext_json, Ext_mat, Ext_hdf5} =>
                /\ ret.raised = "ValueError"
                /\ ret.calls = <<>>
                /\ fs = ret.before

\* export('x', tracks) of a list of Tracklets has returned and x.json is there.
C2_Witness ==
    /\ op.name = "export"
    /\ op.filename = StrObj(Name_x)
    /\ op.tracks = TrackletList(2)
    /\ ret.raised = "none"
    /\ ret.calls = <<<<"export_JSON", Name_x \o Ext_json>>>>
    /\ Created = {Name_x \o Ext_json}

\* C3: export_HDF called with a list of Tracklets ends in an error raised
\* to the caller.
C3_TrackletsRaise ==
    (/\ op.name = "export_HDF"
     /\ Len(op.tracks) >= 1
     /\ \A i \in 1..Len(op.tracks) : isinstance(op.tracks[i], "Tracklet"))
        => ret.raised # "none"

\* A list of lists of integers, none of them empty.
IsReferenceTracks(trks) ==
    /\ Len(trks) >= 1
    /\ \A i \in 1..Len(trks) :
        /\ isinstance(trks[i], "list")
        /\ Len(trks[i].items) >= 1
        /\ \A j \in 1..Len(trks[i].items) : isinstance(trks[i].items[j], "int")

\* C8: export_HDF called with reference tracks raises a not-found error and
\* creates nothing when the file does not exist; when the HDF5 file exists
\* it completes, with a 'tracks' dataset added (and a 'dummies' dataset
\* when dummies is non-empty) and the 'objects' data unchanged.
C8_ReferenceTracksWritten ==
    (op.name = "export_HDF" /\ IsReferenceTracks(op.tracks)) =>
        LET f == op.filename.value
        IN  /\ ~exists(ret.before, f) => (ret.raised = "IOError" /\ fs = ret.before)
            /\ CanOpen(ret.before, f) =>
                /\ ret.raised = "none"
                /\ fs[f].tracks # <<>>
                /\ op.dummies # <<>> => fs[f].dummies # <<>>
                /\ fs[f].objects = ret.before[f].objects

----------------------------------------------------------------------------
(* Properties of the HDF5 handlers                                         *)

RECURSIVE Sum(_)
Sum(s) == IF s = <<>> THEN 0 ELSE Head(s) + Sum(Tail(s))

\* The row counts of the class groups of an HDF5 file, in iteration order.
RowCounts(file) == [c \in 1..Len(file.objects) |-> Len(file.objects[c].coords)]

\* The 1-based position of the class group that holds the k-th row of the file.
GroupOf(counts, k) ==
    CHOOSE c \in 1..Len(counts) :
        Sum(SubSeq(counts, 1, c - 1)) < k /\ k <= Sum(SubSeq(counts, 1, c))

\* C7: every read of HDF5_FileHandler.objects, a repeated one included, over
\* a file whose class groups have row counts n1..nk returns n1+...+nk
\* objects with IDs 0, 1, ..., N-1 in returned order, each of type the
\* 1-based position of its class group (not the type column of coords) and
\* with dummy false.
C7_ObjectsRead ==
    (op.name = "objects" /\ ret.raised = "none") =>
        LET counts == RowCounts(fs[ret.self.filename])
            objs == ret.objects
        IN  /\ Len(objs) = Sum(counts)
            /\ \A k \in 1..Len(objs) :
                /\ objs[k].ID = k - 1
                /\ objs[k].type = GroupOf(counts, k)
                /\ objs[k].dummy = FALSE
            /\ handlers[op.handler].ID = Sum(counts)

\* A second read on the same handler of a file with two non-empty classes.
C7_Witness ==
    /\ op.name = "objects"
    /\ ret.raised = "none"
    /\ ret.self.ID = 3
    /\ RowCounts(fs[ret.self.filename]) = <<2, 1>>
    /\ Len(ret.objects) = 3
    /\ ret.objects[3].ID = 2
    /\ ret.objects[3].type = 2

\* C10: for each handler instance of either class, over any sequence of
\* construction, close() calls and teardown, teardown after a failed
\* construction and the exit paths of export_HDF included: the file is never
\* closed twice, a close() on an already closed handler changes nothing and
\* raises nothing, and a handler that opened a file has closed it exactly
\* once when its lifetime ends; a handler that opened none closes none.
C10_ClosedOnce ==
    /\ \A i \in 1..Len(handlers) :
        LET h == handlers[i]
        IN  /\ h.closes <= 1
            /\ h.hdf = "unset" => h.closes = 0
            /\ h.closes = 1 <=> h.hdf = "closed"
            /\ (h.ref = "finalized" /\ h.hdf # "unset") =>
                    (h.hdf = "closed" /\ h.closes = 1)
    /\ (op.name \in {"close", "__del__"} /\ ret.self.hdf = "closed") =>
        /\ ret.raised = "none"
        /\ handlers[op.handler].del_raised = "none"
        /\ handlers[op.handler].hdf = "closed"
        /\ handlers[op.handler].closes = ret.self.closes

\* A handler closed by close(), then let go and finalized: the close() of
\* __del__ is its second.
C10_Witness ==
    /\ op.name = "__del__"
    /\ ret.self.hdf = "closed"
    /\ ret.self.cls = "HDF5_FileHandler_LEGACY"
    /\ handlers[op.handler].ref = "finalized"
    /\ handlers[op.handler].closes = 1

----------------------------------------------------------------------------
(* Properties of the per-track archive                                     *)

UniqueIDs(trks) == \A i, j \in 1..Len(trks) : trks[i].ID = trks[j].ID => i = j

\* The (t, x, y, z, label, type) values of the objects of a track.
ObjectValues(trk) ==
    [k \in 1..Len(trk.objects) |->
        <<trk.objects[k].t, trk.objects[k].x, trk.objects[k].y, trk.objects[k].z,
          trk.objects[k].label, trk.objects[k].type>>]

\* C4: for a collection T with unique IDs, any accepted cell_type, None
\* included, and either value of as_zip_archive, import_all_tracks_JSON(dir,
\* cell_type) after export_all_tracks_JSON(dir, T, cell_type, as_zip_archive)
\* returns one track per track of T, in order, with the same ID, parentID,
\* rootID, fate_label and object values, and with cell_type and filename
\* attached.
C4_RoundTrip ==
    (/\ ar.pc = "done"
     /\ UniqueIDs(ar.tracks)
     /\ imp.called
     /\ imp.cell_type = ar.cell_type) =>
        /\ imp.raised = "none"
        /\ Len(imp.tracks) = Len(ar.tracks)
        /\ \A k \in 1..Len(ar.tracks) :
            /\ imp.tracks[k].ID = ar.tracks[k].ID
            /\ imp.tracks[k].parentID = ar.tracks[k].parentID
            /\ imp.tracks[k].rootID = ar.tracks[k].rootID
            /\ imp.tracks[k].fate_label = ar.tracks[k].fate_label
            /\ ObjectValues(imp.tracks[k]) = ObjectValues(ar.tracks[k])
            /\ imp.tracks[k].cell_type = ar.cell_type
            /\ imp.tracks[k].filename = TrackFileName(ar.tracks[k].ID, ar.cell_type)

\* C5: once export_all_tracks_JSON with as_zip_archive=True has completed,
\* no per-track file of an exported track is left in export_dir, and the
\* 'files' list of the manifest is exactly the list of member names of the
\* zip archive, with 'zipped' recorded as true.
C5_ManifestFidelity ==
    (ar.pc = "done" /\ ar.as_zip_archive) =>
        /\ \A k \in 1..Len(ar.tracks) :
                ~exists(fs, TrackFileName(ar.tracks[k].ID, ar.cell_type))
        /\ exists(fs, ManifestName(ar.cell_type))
        /\ exists(fs, ZipName(ar.cell_type))
        /\ LET manifest == json_load(fs[ManifestName(ar.cell_type)])
               zip == fs[ZipName(ar.cell_type)]
           IN  /\ manifest.keys = <<str(ar.cell_type)>>
               /\ manifest.val[1].zipped = TRUE
               /\ manifest.val[1].files = [k \in 1..Len(zip.members) |-> zip.members[k].name]
               /\ Len(manifest.val[1].files) = Len(ar.tracks)
               /\ zip.finalized

\* A zipped export of two GFP tracks has completed.
C5_Witness ==
    /\ ar.pc = "done"
    /\ ar.as_zip_archive
    /\ ar.tracks = TrackletList(2)
    /\ ar.cell_type = StrObj("GFP")
    /\ Len(fs[ZipName(ar.cell_type)].members) = 2
    /\ json_load(fs[ManifestName(ar.cell_type)]).val[1].files
            = <<TrackFileName(2, ar.cell_type), TrackFileName(1, ar.cell_type)>>

\* C9: during export_all_tracks_JSON with as_zip_archive=True no per-track
\* file is deleted before the zip archive is completely written and closed:
\* at every point each track file written so far is either still loose in
\* the directory or a member of a closed archive.
C9_ZipBeforeDelete ==
    (ar.pc \in {"zip_open", "zip_write", "zip_remove", "zip_close", "manifest", "done"}
        /\ ar.as_zip_archive) =>
        \A k \in 1..Len(ar.filenames) :
            \/ exists(fs, ar.filenames[k])
            \/ /\ exists(fs, ZipName(ar.cell_type))
               /\ fs[ZipName(ar.cell_type)].finalized
               /\ ZipHas(fs[ZipName(ar.cell_type)], ar.filenames[k])

----------------------------------------------------------------------------
(* Properties of fate_table                                                *)

\* The IDs of the tracks of trks that carry label f, in input order.
IDsWithLabel(trks, f) ==
    LET sel == SelectSeq(trks, LAMBDA t : t.fate_label = f)
    IN  [i \in 1..Len(sel) |-> sel[i].ID]

\* The position of the first track of trks that carries label f.
FirstSeen(trks, f) ==
    CHOOSE i \in 1..Len(trks) :
        /\ trks[i].fate_label = f
        /\ \A j \in 1..(i - 1) : trks[j].fate_label # f

Range(s) == {s[i] : i \in 1..Len(s)}

\* C6: fate_table(T) maps each fate label that occurs in T to exactly the
\* subsequence of the track IDs of T carrying that label, in input order:
\* the union of the ID lists is the set of IDs of T, every list is made of
\* the IDs of tracks whose fate_label is its key, no label absent from T is
\* a key, and the keys were inserted in first-seen order.
C6_FateTable ==
    ft_called =>
        LET d == ft_table
            n == Len(d.keys)
        IN  /\ Len(d.val) = n
            /\ Range(d.keys) = {ft_tracks[i].fate_label : i \in 1..Len(ft_tracks)}
            /\ \A i, j \in 1..n : d.keys[i] = d.keys[j] => i = j
            /\ \A i \in 1..n : d.val[i] = IDsWithLabel(ft_tracks, d.keys[i])
            /\ UNION {Range(d.val[i]) : i \in 1..n}
                   = {ft_tracks[i].ID : i \in 1..Len(ft_tracks)}
            /\ \A i, j \in 1..n :
                   i < j => FirstSeen(ft_tracks, d.keys[i]) < FirstSeen(ft_tracks, d.keys[j])

\* A table of two labels, the first seen not the alphabetically first, one
\* of them carried by two tracks.
C6_Witness ==
    /\ ft_called
    /\ Len(ft_tracks) = 3
    /\ ft_table.keys = <<"interphase", "apoptosis">>
    /\ ft_table.val = <<<<2, 1>>, <<1>>>>

====
